---- MODULE Spec2Model ----
(***************************************************************************)
(* Model of plugins/modules/k8s.py (community.okd): OKDRawModule, the      *)
(* OpenShift flavour of the k8s module.  perform_action probes the cluster *)
(* for Project / ProjectRequest definitions and, when the probe answers    *)
(* not-found or forbidden, creates a ProjectRequest instead of running the *)
(* inherited reconciliation.                                               *)
(*                                                                         *)
(* One run of perform_action is a chain of cluster calls; every call is a  *)
(* step.  Two runs of the same invocation are kept side by side (Runs), so *)
(* that runs which differ only in the answers of the cluster can be        *)
(* compared; under Spec only run 1 is started.                             *)
(***************************************************************************)
EXTENDS Integers, Sequences, FiniteSets, TLC

VARIABLES
    params,         \* module parameters: state, check_mode, wait (shared by the runs)
    definition0,    \* the definition as the caller passed it
    oracle,         \* what the server will answer to find_resource / a write
    cluster0,       \* the live objects of the cluster when the run starts
    definition,     \* per run: the caller's definition object (a mutable dict)
    cluster,        \* per run: the live objects of the cluster
    pc,             \* per run: position in perform_action
    calls,          \* per run: the cluster calls issued, in order
    answers,        \* per run: the answers of the lookups, in order
    returned,       \* per run: <<>> or <<result>>, the value perform_action returned
    failure,        \* per run: <<>> or <<error>>, the arguments of fail_json
    polls           \* per run: polls made by the inherited wait

vars == <<params, definition0, oracle, cluster0, definition, cluster, pc, calls, answers,
          returned, failure, polls>>

Runs == {1, 2}

\* ---------------------------------------------------------------- bounds
MaxPolls == 2

Kinds == {"Project", "ProjectRequest", "ConfigMap"}
ApiVersions == {"project.openshift.io/v1", "v1"}
Names == {"p1"}
SpecBodies == {"s1", "s2"}
States == {"present", "absent"}
WaitSpecs == { [enabled |-> FALSE, condition |-> ""],
               [enabled |-> TRUE,  condition |-> ""],
               [enabled |-> TRUE,  condition |-> "Available"] }

Definitions == [apiVersion : ApiVersions, kind : Kinds,
                metadata : [name : Names, namespace : {""}],
                spec : SpecBodies]

\* ------------------------------------------------------- the cluster
\* The kind under which an object of this definition lives in the cluster:
\* a ProjectRequest is never stored, the server turns it into a Project.
LiveKind(kind) == IF kind = "ProjectRequest" THEN "Project" ELSE kind

LiveObject(def) == [apiVersion |-> def.apiVersion, kind |-> LiveKind(def.kind),
                    metadata |-> def.metadata, spec |-> def.spec]

Existing(c, kind, name) == {o \in c : o.kind = kind /\ o.metadata.name = name}

Exists(c, kind, name) == Existing(c, kind, name) # {}

\* resource.get(name, namespace): the answers the server can give.
GetAnswers(c, kind, name) ==
    IF Exists(c, kind, name) THEN {"found", "forbidden", "error"}
                             ELSE {"notfound", "forbidden", "error"}

\* The exception a failed call raises (status, reason, body).
Exc(ans) ==
    CASE ans = "notfound"  -> [status |-> 404, reason |-> "Not Found", body |-> "notfound"]
      [] ans = "forbidden" -> [status |-> 403, reason |-> "Forbidden", body |-> "forbidden"]
      [] ans = "conflict"  -> [status |-> 409, reason |-> "Conflict", body |-> "exists"]
      [] OTHER             -> [status |-> 500, reason |-> "Internal Server Error", body |-> "error"]

\* fail_json(msg=<prefix>: exc.body, error=exc.status, status=exc.status, reason=exc.reason)
FailJson(prefix, exc) ==
    [msg |-> <<prefix, exc.body>>, error |-> exc.status, status |-> exc.status,
     reason |-> exc.reason]

GetCall(phase, def) ==
    [op |-> "get", phase |-> phase, kind |-> def.kind, apiVersion |-> def.apiVersion,
     name |-> def.metadata.name, payload |-> <<>>]

WriteCall(op, phase, kind, def) ==
    [op |-> op, phase |-> phase, kind |-> kind, apiVersion |-> def.apiVersion,
     name |-> def.metadata.name, payload |-> <<def>>]

\* The answer of resource.create(payload) for a ProjectRequest.
CreateAnswer(c, payload) ==
    IF oracle.create = "error" THEN "error"
    ELSE IF Exists(c, "Project", payload.metadata.name) THEN "conflict"
    ELSE "ok"

\* ------------------------------------------------------------ mutants
\* Slips the code could have made; each is checked to break a property below.

\* the probe is taken for state=absent too
Mut_ProbeIgnoresState(def, state) == def.kind \in {"Project", "ProjectRequest"}

\* only NotFoundError is caught; ForbiddenError falls to the DynamicApiError clause
Mut_ForbiddenIsFatal(ans) ==
    CASE ans = "notfound"               -> "create_project_request"
      [] ans \in {"error", "forbidden"} -> "failed"
      [] OTHER                          -> "super"

\* every DynamicApiError of the probe is caught by the first clause
Mut_AnyErrorProvisions(ans) ==
    CASE ans \in {"notfound", "forbidden", "error"} -> "create_project_request"
      [] OTHER                                      -> "super"

\* the request is created whatever the probe answers
Mut_FoundProvisions(ans) ==
    CASE ans \in {"notfound", "forbidden", "found"} -> "create_project_request"
      [] OTHER                                      -> "failed"

\* the kind is not switched
Mut_KeepKind(def) == def

\* check mode is not consulted
Mut_AlwaysSubmits(check_mode) == TRUE

\* result['changed'] = True is forgotten
Mut_ResultUnchanged(obj) == [changed |-> FALSE, result |-> obj, method |-> "create"]

\* the failed create is tried again
Mut_RetryCreate == "create_project_request"

\* the provisioning path honours wait
Mut_ProvisionWaits(wait) == IF wait.enabled THEN "waiting" ELSE "done"

\* ------------------------------------------------- OKDRawModule, k8s.py
\* perform_action, line 303: does this definition take the probe?
IsProvisioningProbe(def, state) ==
    def.kind \in {"Project", "ProjectRequest"} /\ state # "absent"

\* perform_action, lines 304-312: where the run goes on the probe's answer.
ProbeOutcome(ans) ==
    CASE ans \in {"notfound", "forbidden"} -> "create_project_request"
      [] ans = "error"                     -> "failed"
      [] OTHER                             -> "super"

\* create_project_request, line 315: definition['kind'] = 'ProjectRequest',
\* an assignment into the caller's dict.
SetRequestKind(def) == [def EXCEPT !.kind = "ProjectRequest"]

\* create_project_request, line 317: the kind whose resource is resolved.
RequestKind == "ProjectRequest"

\* create_project_request, line 318: is the create submitted?
Submits(check_mode) == ~check_mode

\* create_project_request, lines 316, 321, 325-327: the result returned.
ProvisionResult(obj) == [changed |-> TRUE, result |-> obj, method |-> "create"]

\* create_project_request, lines 322-324: a failed create ends in fail_json.
OnCreateError == "failed"

\* create_project_request, line 327 / perform_action, line 307: the result is
\* returned as it is; the run is over.
AfterProvision(wait) == "done"

PerformAction(r) ==
    /\ pc[r] = "start"
    /\ IF IsProvisioningProbe(definition[r], params.state)
       THEN \E ans \in GetAnswers(cluster[r], definition[r].kind,
                                  definition[r].metadata.name) :
              /\ calls' = [calls EXCEPT ![r] = Append(@, GetCall("probe", definition[r]))]
              /\ answers' = [answers EXCEPT ![r] = Append(@, ans)]
              /\ pc' = [pc EXCEPT ![r] = ProbeOutcome(ans)]
              /\ failure' = [failure EXCEPT ![r] =
                    IF ProbeOutcome(ans) = "failed"
                    THEN <<FailJson("Failed to retrieve requested object", Exc(ans))>>
                    ELSE @]
       ELSE /\ pc' = [pc EXCEPT ![r] = "super"]
            /\ UNCHANGED <<calls, answers, failure>>
    /\ UNCHANGED <<params, definition0, oracle, cluster0, definition, cluster, returned, polls>>

CreateProjectRequest(r) ==
    /\ pc[r] = "create_project_request"
    /\ definition' = [definition EXCEPT ![r] = SetRequestKind(@)]
    /\ LET def == SetRequestKind(definition[r])
           ans == CreateAnswer(cluster[r], def)
       IN  IF oracle.resolve = "fail"
           THEN \* find_resource(..., fail=True)
                /\ pc' = [pc EXCEPT ![r] = "failed"]
                /\ failure' = [failure EXCEPT ![r] =
                      <<[msg |-> <<"Failed to find exact match", RequestKind>>]>>]
                /\ UNCHANGED <<calls, cluster, returned>>
           ELSE IF ~Submits(params.check_mode)
           THEN /\ pc' = [pc EXCEPT ![r] = AfterProvision(params.wait)]
                /\ returned' = [returned EXCEPT ![r] = <<ProvisionResult(<<>>)>>]
                /\ UNCHANGED <<calls, cluster, failure>>
           ELSE /\ calls' = [calls EXCEPT ![r] =
                      Append(@, WriteCall("create", "provision", RequestKind, def))]
                /\ IF ans = "ok"
                   THEN /\ cluster' = [cluster EXCEPT ![r] = @ \cup {LiveObject(def)}]
                        /\ returned' = [returned EXCEPT ![r] =
                              <<ProvisionResult(<<LiveObject(def)>>)>>]
                        /\ pc' = [pc EXCEPT ![r] = AfterProvision(params.wait)]
                        /\ UNCHANGED failure
                   ELSE /\ pc' = [pc EXCEPT ![r] = OnCreateError]
                        /\ failure' = [failure EXCEPT ![r] =
                              <<FailJson("Failed to create object", Exc(ans))>>]
                        /\ UNCHANGED <<cluster, returned>>
    /\ UNCHANGED <<params, definition0, oracle, cluster0, answers, polls>>

\* ------------------------------------- KubernetesRawModule.perform_action
\* The inherited reconciliation (line 312), which is not part of this file:
\* lookup, then no-op / create / patch / delete, then the optional wait.
SuperDecision(state, ans) ==
    CASE state = "absent"  /\ ans = "notfound" -> "done"
      [] state = "absent"  /\ ans = "found"    -> "deleting"
      [] state = "present" /\ ans = "notfound" -> "creating"
      [] state = "present" /\ ans = "found"    -> "patching"
      [] OTHER                                 -> "failed"

SuperMethod(p) ==
    CASE p = "creating" -> "create"
      [] p = "patching" -> "patch"
      [] OTHER          -> "delete"

\* The cluster after a successful write of the definition.
SuperApply(c, p, def) ==
    LET others == c \ Existing(c, LiveKind(def.kind), def.metadata.name)
    IN  IF p = "deleting" THEN others ELSE others \cup {LiveObject(def)}

SuperResult(p, def) ==
    [changed |-> TRUE, method |-> SuperMethod(p),
     result |-> IF p = "deleting" THEN <<>> ELSE <<LiveObject(def)>>]

SuperResolve(r) ==
    /\ pc[r] = "super"
    /\ \E ans \in GetAnswers(cluster[r], definition[r].kind,
                              definition[r].metadata.name) :
         /\ calls' = [calls EXCEPT ![r] = Append(@, GetCall("normal", definition[r]))]
         /\ answers' = [answers EXCEPT ![r] = Append(@, ans)]
         /\ pc' = [pc EXCEPT ![r] = SuperDecision(params.state, ans)]
         /\ failure' = [failure EXCEPT ![r] =
               IF SuperDecision(params.state, ans) = "failed"
               THEN <<FailJson("Failed to retrieve requested object", Exc(ans))>>
               ELSE @]
         /\ returned' = [returned EXCEPT ![r] =
               IF SuperDecision(params.state, ans) = "done"
               THEN <<[changed |-> FALSE, method |-> "noop", result |-> <<>>]>>
               ELSE @]
    /\ UNCHANGED <<params, definition0, oracle, cluster0, definition, cluster, polls>>

SuperWrite(r) ==
    /\ pc[r] \in {"creating", "patching", "deleting"}
    /\ LET def == definition[r]
           p == pc[r]
       IN  IF p = "patching" /\ LiveObject(def) \in cluster[r]
           THEN \* empty patch: nothing is written
                /\ returned' = [returned EXCEPT ![r] =
                      <<[changed |-> FALSE, method |-> "noop",
                         result |-> <<LiveObject(def)>>]>>]
                /\ pc' = [pc EXCEPT ![r] = "done"]
                /\ UNCHANGED <<calls, cluster, failure>>
           ELSE IF params.check_mode
           THEN /\ returned' = [returned EXCEPT ![r] = <<SuperResult(p, def)>>]
                /\ pc' = [pc EXCEPT ![r] = "done"]
                /\ UNCHANGED <<calls, cluster, failure>>
           ELSE /\ calls' = [calls EXCEPT ![r] =
                      Append(@, WriteCall(SuperMethod(p), "normal", def.kind, def))]
                /\ IF oracle.create = "error"
                   THEN /\ pc' = [pc EXCEPT ![r] = "failed"]
                        /\ failure' = [failure EXCEPT ![r] =
                              <<FailJson("Failed to write object", Exc("error"))>>]
                        /\ UNCHANGED <<cluster, returned>>
                   ELSE /\ cluster' = [cluster EXCEPT ![r] = SuperApply(@, p, def)]
                        /\ returned' = [returned EXCEPT ![r] = <<SuperResult(p, def)>>]
                        /\ pc' = [pc EXCEPT ![r] =
                              IF params.wait.enabled THEN "waiting" ELSE "done"]
                        /\ UNCHANGED failure
    /\ UNCHANGED <<params, definition0, oracle, cluster0, definition, answers, polls>>

WithDuration(res, d) ==
    [changed |-> res.changed, method |-> res.method, result |-> res.result,
     duration |-> d]

\* Does the wait poll at all?  Deletion is awaited for every kind; presence only
\* against an explicit condition (none of the kinds here has a built-in
\* readiness predicate).
WaitPolls(state, wait) == state = "absent" \/ wait.condition # ""

SuperWait(r) ==
    /\ pc[r] = "waiting"
    /\ IF ~WaitPolls(params.state, params.wait)
       THEN /\ pc' = [pc EXCEPT ![r] = "done"]
            /\ UNCHANGED <<calls, answers, returned, failure, polls>>
       ELSE /\ calls' = [calls EXCEPT ![r] = Append(@, GetCall("wait", definition[r]))]
            /\ polls' = [polls EXCEPT ![r] = @ + 1]
            /\ \E converged \in BOOLEAN :
                 /\ (params.state = "absent") => converged
                 /\ answers' = [answers EXCEPT ![r] =
                       Append(@, IF params.state = "absent" THEN "notfound" ELSE "found")]
                 /\ IF converged
                    THEN /\ pc' = [pc EXCEPT ![r] = "done"]
                         /\ returned' = [returned EXCEPT ![r] =
                               <<WithDuration(@[1], polls[r] + 1)>>]
                         /\ UNCHANGED failure
                    ELSE IF polls[r] + 1 >= MaxPolls
                    THEN /\ pc' = [pc EXCEPT ![r] = "failed"]
                         /\ failure' = [failure EXCEPT ![r] =
                               <<[msg |-> <<"Timed out", "waiting">>,
                                  duration |-> polls[r] + 1]>>]
                         /\ UNCHANGED returned
                    ELSE UNCHANGED <<pc, returned, failure>>
    /\ UNCHANGED <<params, definition0, oracle, cluster0, definition, cluster>>

\* ------------------------------------------------------ specifications
InitCommon ==
    /\ params \in [state : States, check_mode : BOOLEAN, wait : WaitSpecs]
    /\ definition0 \in Definitions
    /\ oracle \in [resolve : {"ok", "fail"}, create : {"ok", "error"}]
    /\ definition = [r \in Runs |-> definition0]
    /\ cluster0 \in {{}} \cup {{[LiveObject(definition0) EXCEPT !.spec = s]} : s \in SpecBodies}
    /\ cluster = [r \in Runs |-> cluster0]
    /\ calls = [r \in Runs |-> <<>>]
    /\ answers = [r \in Runs |-> <<>>]
    /\ returned = [r \in Runs |-> <<>>]
    /\ failure = [r \in Runs |-> <<>>]
    /\ polls = [r \in Runs |-> 0]

\* main() -> execute_module() -> perform_action: one run.
Init == InitCommon /\ pc = [r \in Runs |-> IF r = 1 THEN "start" ELSE "off"]

\* The same invocation run twice, against clusters that start equal and may
\* answer differently.
InitPair == InitCommon /\ pc = [r \in Runs |-> "start"]

Next ==
    \E r \in Runs :
        \/ PerformAction(r)
        \/ CreateProjectRequest(r)
        \/ SuperResolve(r)
        \/ SuperWrite(r)
        \/ SuperWait(r)

Spec == Init /\ [][Next]_vars

SpecPair == InitPair /\ [][Next]_vars

Finished(r) == pc[r] \in {"done", "failed"}

\* ------------------------------------------------------------ properties
ProvisioningKinds == {"Project", "ProjectRequest"}

\* The invocation is on the provisioning path's entry: provisioning kind, present.
ProvisioningCase == definition0.kind \in ProvisioningKinds /\ params.state = "present"

Probed(r) == Len(calls[r]) >= 1 /\ calls[r][1].phase = "probe"

ProbeAnswered(r, ans) == Probed(r) /\ answers[r][1] = ans

CallsOf(r, op) == SelectSeq(calls[r], LAMBDA c : c.op = op)

ProbeCalls(r) == SelectSeq(calls[r], LAMBDA c : c.phase = "probe")

ProvisionCreates(r) ==
    SelectSeq(calls[r], LAMBDA c : c.op = "create" /\ c.kind = "ProjectRequest")

MutatingCalls(r) == SelectSeq(calls[r], LAMBDA c : c.op \in {"create", "patch", "delete"})

ProbeCallOf(def) == GetCall("probe", def)

RequestPayload == [definition0 EXCEPT !.kind = "ProjectRequest"]

RequestCreateCall ==
    [op |-> "create", phase |-> "provision", kind |-> "ProjectRequest",
     apiVersion |-> definition0.apiVersion, name |-> definition0.metadata.name,
     payload |-> <<RequestPayload>>]

\* The server accepts the ProjectRequest of this invocation.
CreateWillSucceed ==
    oracle.create = "ok" /\ ~Exists(cluster0, "Project", definition0.metadata.name)

\* C1 (as stated): provisioning kind, state=present, check mode off, lookup
\* answers not-found: the finished run has issued the lookup and then exactly
\* one create, against ProjectRequest, whose payload is the desired definition
\* with kind ProjectRequest, and no create against the original resource.
C1_AsStated ==
    \A r \in Runs :
        (Finished(r) /\ ProvisioningCase /\ ~params.check_mode
                     /\ ProbeAnswered(r, "notfound"))
        => calls[r] = <<ProbeCallOf(definition0), RequestCreateCall>>

\* C1 (amended): the same, provided the ProjectRequest resource resolves; when
\* it does not resolve the run fails after the lookup without any create call.
C1_ProvisionIssuesOneRequestCreate ==
    \A r \in Runs :
        (Finished(r) /\ ProvisioningCase /\ ~params.check_mode
                     /\ ProbeAnswered(r, "notfound"))
        => IF oracle.resolve = "ok"
           THEN calls[r] = <<ProbeCallOf(definition0), RequestCreateCall>>
           ELSE calls[r] = <<ProbeCallOf(definition0)>> /\ pc[r] = "failed"
                /\ failure[r] # <<>> /\ returned[r] = <<>>

C1_Witness ==
    /\ Finished(1) /\ ProvisioningCase /\ ~params.check_mode
    /\ definition0.kind = "Project" /\ ProbeAnswered(1, "notfound")
    /\ oracle.resolve = "ok" /\ Len(calls[1]) = 2 /\ calls[1][2].op = "create"

C3_ForbiddenSameAsNotFound ==
    (ProvisioningCase /\ Finished(1) /\ Finished(2)
        /\ ProbeAnswered(1, "notfound") /\ ProbeAnswered(2, "forbidden"))
    => /\ calls[1] = calls[2]
       /\ returned[1] = returned[2]
       /\ failure[1] = failure[2]
       /\ pc[1] = pc[2]
       /\ cluster[1] = cluster[2]

C3_Witness ==
    /\ ProvisioningCase /\ Finished(1) /\ Finished(2)
    /\ ProbeAnswered(1, "notfound") /\ ProbeAnswered(2, "forbidden")
    /\ ~params.check_mode /\ returned[2] # <<>> /\ ProvisionCreates(2) # <<>>

C3_WitnessCreateFails ==
    /\ ProvisioningCase /\ Finished(1) /\ Finished(2)
    /\ ProbeAnswered(1, "notfound") /\ ProbeAnswered(2, "forbidden")
    /\ failure[2] # <<>> /\ ProvisionCreates(2) # <<>>

\* C4: for a provisioning kind with state=present, a lookup that fails with an
\* error other than not-found or forbidden ends the run in a fatal error with
\* msg, error, status and reason of the failure, and the lookup stays the only
\* cluster call of the run.
C4_OtherLookupErrorIsFatal ==
    \A r \in Runs :
        (ProvisioningCase /\ ProbeAnswered(r, "error"))
        => /\ pc[r] = "failed"
           /\ calls[r] = <<ProbeCallOf(definition0)>>
           /\ returned[r] = <<>>
           /\ failure[r] = <<[msg |-> <<"Failed to retrieve requested object", "error">>,
                               error |-> 500, status |-> 500,
                               reason |-> "Internal Server Error"]>>
           /\ cluster[r] = cluster0

C4_Witness ==
    ProvisioningCase /\ ProbeAnswered(1, "error") /\ pc[1] = "failed" /\ failure[1] # <<>>

\* C5: with state=absent, whatever the kind and whatever the lookups answer,
\* no create call is issued, no probe is made, the provisioning step is never
\* entered, and the first call is the lookup of the normal reconciliation.
C5_AbsentNeverCreates ==
    params.state = "absent"
    => \A r \in Runs :
          /\ CallsOf(r, "create") = <<>>
          /\ ProbeCalls(r) = <<>>
          /\ pc[r] \notin {"create_project_request", "creating", "patching"}
          /\ (calls[r] # <<>> => calls[r][1] = GetCall("normal", definition0))
          /\ definition[r] = definition0

C5_Witness ==
    /\ params.state = "absent" /\ definition0.kind = "Project" /\ pc[1] = "done"
    /\ CallsOf(1, "delete") # <<>>

\* C6 (as stated): for a provisioning kind with state=present, when the object
\* exists in the cluster at the time of the lookup, no create against
\* ProjectRequest is submitted.
C6_AsStated ==
    \A r \in Runs :
        (ProvisioningCase /\ Probed(r)
            /\ Exists(cluster0, definition0.kind, definition0.metadata.name))
        => ProvisionCreates(r) = <<>>

\* C6 (amended): for a provisioning kind with state=present, when the lookup
\* finds the object, no create against ProjectRequest is submitted, the
\* provisioning step is never entered, the definition keeps its kind and every
\* later call belongs to the normal reconciliation.
C6_FoundNeverProvisions ==
    \A r \in Runs :
        (ProvisioningCase /\ ProbeAnswered(r, "found"))
        => /\ ProvisionCreates(r) = <<>>
           /\ pc[r] \notin {"start", "create_project_request"}
           /\ definition[r] = definition0
           /\ \A i \in 2..Len(calls[r]) : calls[r][i].phase \in {"normal", "wait"}
           /\ (Len(calls[r]) >= 2 => calls[r][2] = GetCall("normal", definition0))

C6_Witness ==
    /\ ProvisioningCase /\ ProbeAnswered(1, "found") /\ pc[1] = "done"
    /\ Len(calls[1]) >= 3 /\ calls[1][3].op = "patch"

C6_WitnessNoop ==
    /\ ProvisioningCase /\ ProbeAnswered(1, "found") /\ pc[1] = "done"
    /\ MutatingCalls(1) = <<>> /\ returned[1] # <<>> /\ ~returned[1][1].changed

\* C7: after a run of perform_action, on every path, the caller's definition
\* equals the definition that was passed in.
C7_DefinitionReadOnly ==
    \A r \in Runs : Finished(r) => definition[r] = definition0

\* C8: a failed create against ProjectRequest ends the run in a fatal error
\* with msg, error, status and reason and without a result; and no run issues
\* more than one create call or more than one probe lookup.
C8_CreateFailureIsFatalNoRetry ==
    \A r \in Runs :
        /\ (ProvisionCreates(r) # <<>> /\ ~CreateWillSucceed)
            => /\ pc[r] = "failed"
               /\ returned[r] = <<>>
               /\ Len(failure[r]) = 1
               /\ DOMAIN failure[r][1] = {"msg", "error", "status", "reason"}
               /\ failure[r][1].msg[1] = "Failed to create object"
               /\ failure[r][1].error = failure[r][1].status
               /\ failure[r][1].status \in {409, 500}
               /\ cluster[r] = cluster0
        /\ Len(CallsOf(r, "create")) <= 1
        /\ Len(ProbeCalls(r)) <= 1

C8_Witness ==
    /\ ProvisionCreates(1) # <<>> /\ oracle.create = "error" /\ pc[1] = "failed"

C8_WitnessConflict ==
    /\ ProvisionCreates(1) # <<>> /\ oracle.create = "ok" /\ pc[1] = "failed"
    /\ failure[1][1].status = 409

\* C9 (as stated): a check-mode run of the provisioning path issues no
\* mutating call, leaves the cluster as it was and returns changed=true with
\* an empty result object.
C9_AsStated ==
    \A r \in Runs :
        (Finished(r) /\ ProvisioningCase /\ params.check_mode
            /\ (ProbeAnswered(r, "notfound") \/ ProbeAnswered(r, "forbidden")))
        => /\ MutatingCalls(r) = <<>>
           /\ cluster[r] = cluster0
           /\ Len(returned[r]) = 1
           /\ returned[r][1].changed
           /\ returned[r][1].result = <<>>

\* C9 (amended): a check-mode run of the provisioning path issues no mutating
\* call and leaves the cluster as it was; when the ProjectRequest resource
\* resolves it returns changed=true with an empty result object, otherwise it
\* fails without a result.
C9_CheckModeDoesNotWrite ==
    \A r \in Runs :
        (Finished(r) /\ ProvisioningCase /\ params.check_mode
            /\ (ProbeAnswered(r, "notfound") \/ ProbeAnswered(r, "forbidden")))
        => /\ MutatingCalls(r) = <<>>
           /\ calls[r] = <<ProbeCallOf(definition0)>>
           /\ cluster[r] = cluster0
           /\ IF oracle.resolve = "ok"
              THEN /\ Len(returned[r]) = 1
                   /\ returned[r][1].changed
                   /\ returned[r][1].result = <<>>
                   /\ failure[r] = <<>>
              ELSE returned[r] = <<>> /\ pc[r] = "failed" /\ failure[r] # <<>>

C9_Witness ==
    /\ Finished(1) /\ ProvisioningCase /\ params.check_mode
    /\ ProbeAnswered(1, "forbidden") /\ oracle.resolve = "ok"
    /\ returned[1] # <<>> /\ returned[1][1].changed

====
